---- MODULE Spec2Model ----
(***************************************************************************)
(* plot_time_series (ts_plotting.py): one call of the function, modelled   *)
(* statement by statement.  The arguments of the call are drawn in Init;   *)
(* each action is one statement of the body.  A Python exception ends the  *)
(* call with pc = "raised" and its class in exc.                           *)
(***************************************************************************)
EXTENDS Integers, Sequences, FiniteSets, TLC

VARIABLES
    training_data,   \* argument: a DataFrame, or None
    test_data,       \* argument: a DataFrame, or None
    forecast,        \* argument: a DataFrame, or None
    test_data_mode,  \* argument: a string
    y_axis_label,    \* argument: a string
    color_dict,      \* the local name color_dict: a reference into heap, or "None"
    heap,            \* the dict objects alive during the call, by reference
    fig,             \* the local name fig: None before go.Figure(), then the figure
    displayed,       \* the figures rendered by fig.show(), in order
    pc,              \* the statement about to run, or "done" / "raised"
    exc,             \* class of the exception that ended the call, "" if none
    ret              \* the value returned to the caller, "" while none

vars == <<training_data, test_data, forecast, test_data_mode, y_axis_label,
          color_dict, heap, fig, displayed, pc, exc, ret>>

args == <<training_data, test_data, forecast, test_data_mode, y_axis_label>>

-----------------------------------------------------------------------------
(* Bounds of the input space *)

MaxModes  == 4   \* how many of the candidate test_data_mode strings are tried
MaxLabels == 2   \* how many of the candidate y_axis_label strings are tried
MaxColors == 2   \* how many colours a caller's mapping draws its values from

-----------------------------------------------------------------------------
(* Python values *)

None == [py |-> "None"]

NoneRef == "None"

\* A DataFrame: its index and its columns.  iloc[:, 0] is columns[1].
FrameA     == [index |-> <<1, 2>>, columns |-> << <<10, 20>>, <<7, 8>> >>]
FrameEmpty == [index |-> <<>>, columns |-> <<>>]
Frames     == {FrameA, FrameEmpty}

ModeValues  == <<"markers", "lines", "dots", "", "Markers">>
LabelValues == <<"Value", "Sales", "">>
ColorValues == <<"#00FF00", "#000000", "#ABCDEF">>

Modes        == {ModeValues[i] : i \in 1..MaxModes}
Labels       == {LabelValues[i] : i \in 1..MaxLabels}
CallerColors == {ColorValues[i] : i \in 1..MaxColors}

Roles == {"training", "test", "forecast"}

\* The mappings a caller may pass as color_dict: any keys among the roles.
CallerDicts == UNION {[S -> CallerColors] : S \in SUBSET Roles}

MarkerSize == 6

Ok(v)    == [exc |-> "", val |-> v]
Raise(e) == [exc |-> e, val |-> None]

-----------------------------------------------------------------------------
(* The expressions of the body *)

\* Variant: the mode is never rejected
ValidModeAny(m) == TRUE

\* Variant: only the default mode is accepted
ValidModeMarkersOnly(m) == m = "markers"

\* line 48: test_data_mode not in ["markers", "lines"] is ~ValidMode
ValidMode(m) == m \in {"markers", "lines"}

\* lines 54-58
DefaultColors ==
    [training |-> "#0072B2", test |-> "#000000", forecast |-> "#FF0000"]

\* Variant: a supplied dict has its missing keys filled in place (setdefault)
ResolveColorDictFill(cd, h) ==
    IF cd = NoneRef
    THEN [ref |-> "default", heap |-> h @@ ("default" :> DefaultColors)]
    ELSE [ref |-> cd,
          heap |-> [h EXCEPT ![cd] =
                      [k \in Roles |-> IF k \in DOMAIN h[cd]
                                       THEN h[cd][k] ELSE DefaultColors[k]]]]

\* Variant: the supplied dict is merged over the defaults into a new dict
ResolveColorDictMerge(cd, h) ==
    IF cd = NoneRef
    THEN [ref |-> "default", heap |-> h @@ ("default" :> DefaultColors)]
    ELSE [ref |-> "default",
          heap |-> h @@ ("default" :>
                      [k \in Roles |-> IF k \in DOMAIN h[cd]
                                       THEN h[cd][k] ELSE DefaultColors[k]])]

\* lines 53-58: the name is rebound to a new dict only when it is None
ResolveColorDict(cd, h) ==
    IF cd = NoneRef
    THEN [ref |-> "default", heap |-> h @@ ("default" :> DefaultColors)]
    ELSE [ref |-> cd, heap |-> h]

\* df.index and df.iloc[:, 0]: attribute access on a non-frame raises
\* AttributeError, column 0 of a frame without columns raises IndexError
FrameXY(df) ==
    IF "index" \notin DOMAIN df THEN Raise("AttributeError")
    ELSE IF Len(df.columns) = 0 THEN Raise("IndexError")
    ELSE Ok([x |-> df.index, y |-> df.columns[1]])

\* Variant: the training line is always drawn in the default blue
TrainingScatterFixedColor(df, cd) ==
    LET xy == FrameXY(df) IN
    IF xy.exc # "" THEN xy
    ELSE IF "training" \notin DOMAIN cd THEN Raise("KeyError")
    ELSE Ok([x |-> xy.val.x, y |-> xy.val.y, mode |-> "lines",
             name |-> "Training Data", marker |-> None,
             line |-> [color |-> DefaultColors["training"]]])

\* lines 65-71: arguments are evaluated left to right
TrainingScatter(df, cd) ==
    LET xy == FrameXY(df) IN
    IF xy.exc # "" THEN xy
    ELSE IF "training" \notin DOMAIN cd THEN Raise("KeyError")
    ELSE Ok([x |-> xy.val.x, y |-> xy.val.y, mode |-> "lines",
             name |-> "Training Data", marker |-> None,
             line |-> [color |-> cd["training"]]])

\* Variant: marker and line are both styled whatever the mode
TestScatterBothStyles(df, mode, cd) ==
    LET xy == FrameXY(df) IN
    IF xy.exc # "" THEN xy
    ELSE IF "test" \notin DOMAIN cd THEN Raise("KeyError")
    ELSE Ok([x |-> xy.val.x, y |-> xy.val.y, mode |-> mode,
             name |-> "Test Data",
             marker |-> [color |-> cd["test"], size |-> MarkerSize],
             line |-> [color |-> cd["test"]]])

\* lines 77-92
TestScatter(df, mode, cd) ==
    LET xy == FrameXY(df) IN
    IF xy.exc # "" THEN xy
    ELSE IF mode = "markers" /\ "test" \notin DOMAIN cd THEN Raise("KeyError")
    ELSE IF mode = "lines" /\ "test" \notin DOMAIN cd THEN Raise("KeyError")
    ELSE Ok([x |-> xy.val.x, y |-> xy.val.y, mode |-> mode,
             name |-> "Test Data",
             marker |-> IF mode = "markers"
                        THEN [color |-> cd["test"], size |-> MarkerSize]
                        ELSE None,
             line |-> IF mode = "lines"
                      THEN [color |-> cd["test"]]
                      ELSE None])

\* Variant: the forecast line loses its dash
ForecastScatterSolid(df, cd) ==
    LET xy == FrameXY(df) IN
    IF xy.exc # "" THEN xy
    ELSE IF "forecast" \notin DOMAIN cd THEN Raise("KeyError")
    ELSE Ok([x |-> xy.val.x, y |-> xy.val.y, mode |-> "lines",
             name |-> "Point Forecast", marker |-> None,
             line |-> [color |-> cd["forecast"]]])

\* lines 98-106
ForecastScatter(df, cd) ==
    LET xy == FrameXY(df) IN
    IF xy.exc # "" THEN xy
    ELSE IF "forecast" \notin DOMAIN cd THEN Raise("KeyError")
    ELSE Ok([x |-> xy.val.x, y |-> xy.val.y, mode |-> "lines",
             name |-> "Point Forecast", marker |-> None,
             line |-> [color |-> cd["forecast"], dash |-> "dash"]])

\* line 61: go.Figure()
NewFigure == [data |-> <<>>, layout |-> <<>>]

\* Variant: the trace is put in front of the earlier ones
add_trace_front(f, t) == [f EXCEPT !.data = <<t>> \o @]

\* fig.add_trace(t): the trace goes to the end of fig.data
add_trace(f, t) == [f EXCEPT !.data = Append(@, t)]

\* lines 110-126: the keyword arguments of fig.update_layout
LayoutArgs(label) ==
    [title       |-> "Univariate Time Series Visualization",
     xaxis       |-> [showspikes |-> TRUE, spikemode |-> "across",
                      spikesnap |-> "cursor", spikedash |-> "dot",
                      spikethickness |-> "1.5", spikecolor |-> "gray"],
     yaxis       |-> [showspikes |-> FALSE],
     hovermode   |-> "x",
     template    |-> "plotly_white",
     xaxis_title |-> "Date",
     yaxis_title |-> label,
     legend      |-> [orientation |-> "h", yanchor |-> "bottom", y |-> "1.02",
                      xanchor |-> "right", x |-> "1"]]

\* Variant: the y-axis caption is the default whatever the argument
update_layout_fixed_label(f, label) == [f EXCEPT !.layout = LayoutArgs("Value")]

update_layout(f, label) == [f EXCEPT !.layout = LayoutArgs(label)]

\* Variant: the figure is rendered twice
show_twice(d, f) == Append(Append(d, f), f)

\* line 129: fig.show() renders the figure as it is now
show(d, f) == Append(d, f)

-----------------------------------------------------------------------------
(* The call *)

Init ==
    /\ training_data \in Frames \cup {None}
    /\ test_data \in Frames \cup {None}
    /\ forecast \in Frames \cup {None}
    /\ test_data_mode \in Modes
    /\ y_axis_label \in Labels
    /\ \/ /\ color_dict = NoneRef
          /\ heap = <<>>
       \/ /\ color_dict = "caller"
          /\ \E d \in CallerDicts : heap = ("caller" :> d)
    /\ fig = None
    /\ displayed = <<>>
    /\ pc = "validate"
    /\ exc = ""
    /\ ret = ""

RaiseExc(e) ==
    /\ pc' = "raised"
    /\ exc' = e

\* lines 48-51
Validate ==
    /\ pc = "validate"
    /\ IF ~ValidMode(test_data_mode)
       THEN RaiseExc("ValueError")
       ELSE pc' = "colors" /\ exc' = exc
    /\ UNCHANGED <<args, color_dict, heap, fig, displayed, ret>>

\* lines 53-58
ResolveColors ==
    /\ pc = "colors"
    /\ LET r == ResolveColorDict(color_dict, heap) IN
         /\ color_dict' = r.ref
         /\ heap' = r.heap
    /\ pc' = "figure"
    /\ UNCHANGED <<args, fig, displayed, exc, ret>>

\* line 61
CreateFigure ==
    /\ pc = "figure"
    /\ fig' = NewFigure
    /\ pc' = "training"
    /\ UNCHANGED <<args, color_dict, heap, displayed, exc, ret>>

\* lines 64-72
AddTrainingTrace ==
    /\ pc = "training"
    /\ LET r == TrainingScatter(training_data, heap[color_dict]) IN
         IF r.exc # ""
         THEN RaiseExc(r.exc) /\ fig' = fig
         ELSE /\ fig' = add_trace(fig, r.val)
              /\ pc' = "test"
              /\ exc' = exc
    /\ UNCHANGED <<args, color_dict, heap, displayed, ret>>

\* lines 75-93
AddTestTrace ==
    /\ pc = "test"
    /\ IF test_data = None
       THEN pc' = "forecast" /\ UNCHANGED <<fig, exc>>
       ELSE LET r == TestScatter(test_data, test_data_mode, heap[color_dict]) IN
              IF r.exc # ""
              THEN RaiseExc(r.exc) /\ fig' = fig
              ELSE /\ fig' = add_trace(fig, r.val)
                   /\ pc' = "forecast"
                   /\ exc' = exc
    /\ UNCHANGED <<args, color_dict, heap, displayed, ret>>

\* lines 96-107
AddForecastTrace ==
    /\ pc = "forecast"
    /\ IF forecast = None
       THEN pc' = "layout" /\ UNCHANGED <<fig, exc>>
       ELSE LET r == ForecastScatter(forecast, heap[color_dict]) IN
              IF r.exc # ""
              THEN RaiseExc(r.exc) /\ fig' = fig
              ELSE /\ fig' = add_trace(fig, r.val)
                   /\ pc' = "layout"
                   /\ exc' = exc
    /\ UNCHANGED <<args, color_dict, heap, displayed, ret>>

\* lines 110-126
UpdateLayout ==
    /\ pc = "layout"
    /\ fig' = update_layout(fig, y_axis_label)
    /\ pc' = "show"
    /\ UNCHANGED <<args, color_dict, heap, displayed, exc, ret>>

\* line 129, then the implicit return None
Show ==
    /\ pc = "show"
    /\ displayed' = show(displayed, fig)
    /\ pc' = "done"
    /\ ret' = "None"
    /\ UNCHANGED <<args, color_dict, heap, fig, exc>>

Next ==
    \/ Validate
    \/ ResolveColors
    \/ CreateFigure
    \/ AddTrainingTrace
    \/ AddTestTrace
    \/ AddForecastTrace
    \/ UpdateLayout
    \/ Show

Spec == Init /\ [][Next]_vars

\* The call is synchronous and nothing suspends it: an enabled statement runs.
FairSpec == Spec /\ WF_vars(Next)

-----------------------------------------------------------------------------
(* Vocabulary of the properties *)

Recognised == test_data_mode \in {"markers", "lines"}

Supplied == "caller" \in DOMAIN heap

Terminated == pc \in {"done", "raised"}

Shown == Len(displayed) > 0

Plottable(df) == "index" \in DOMAIN df /\ Len(df.columns) > 0

\* training is a usable frame; test and forecast are usable frames or absent
SeriesTrusted ==
    /\ Plottable(training_data)
    /\ test_data = None \/ Plottable(test_data)
    /\ forecast = None \/ Plottable(forecast)

\* the roles whose trace the call builds
NeededKeys ==
    {"training"} \cup (IF test_data # None THEN {"test"} ELSE {})
                 \cup (IF forecast # None THEN {"forecast"} ELSE {})

KeysPresent == Supplied => NeededKeys \subseteq DOMAIN heap["caller"]

ExpectedTraces ==
    1 + (IF test_data # None THEN 1 ELSE 0) + (IF forecast # None THEN 1 ELSE 0)

BuiltTraces == IF fig = None THEN <<>> ELSE fig.data

TraceColor(t) == IF t.line # None THEN t.line.color ELSE t.marker.color

RoleOf(t) ==
    IF t.name = "Training Data" THEN "training"
    ELSE IF t.name = "Test Data" THEN "test" ELSE "forecast"

\* the colour the caller asked for, for a role
WantedColor(role) ==
    IF Supplied THEN heap["caller"][role]
    ELSE IF role = "training" THEN "#0072B2"
    ELSE IF role = "test" THEN "#000000" ELSE "#FF0000"

-----------------------------------------------------------------------------
(* C1: once the mode check has run on a test_data_mode other than "markers" *)
(* and "lines", the call has raised ValueError, whatever the other          *)
(* arguments are; no figure exists, no trace was built, nothing was         *)
(* displayed and nothing was returned.                                      *)
C1_InvalidModeRaises ==
    (~Recognised /\ pc # "validate") =>
        /\ pc = "raised"
        /\ exc = "ValueError"
        /\ fig = None
        /\ displayed = <<>>
        /\ ret = ""

C1_Witness ==
    /\ pc = "raised"
    /\ test_data_mode = "dots"
    /\ training_data = None
    /\ test_data = FrameEmpty
    /\ Supplied
    /\ DOMAIN heap["caller"] = {}

(* C2 as stated: with test_data_mode "markers" or "lines" the call never    *)
(* raises, whatever mapping is supplied as color_dict (stated here for      *)
(* usable series only, which is the weaker form).                           *)
C2_OnlyModeRaises ==
    (Recognised /\ SeriesTrusted) => pc # "raised"

(* C2 amended: with test_data_mode "markers" or "lines", usable series and  *)
(* color_dict omitted or holding the key of every trace that is built, the  *)
(* call does not raise and completes having displayed the chart once.       *)
C2_TrustedCallDisplays ==
    (Recognised /\ SeriesTrusted /\ KeysPresent)
        ~> (pc = "done" /\ exc = "" /\ Len(displayed) = 1)

C2_Witness ==
    /\ pc = "done"
    /\ test_data_mode = "lines"
    /\ Supplied
    /\ DOMAIN heap["caller"] = {"training", "test"}
    /\ test_data # None
    /\ forecast = None
    /\ Len(displayed) = 1

(* C3: the displayed chart holds one trace for training plus one for each   *)
(* of test and forecast that is provided, in the order training ("Training  *)
(* Data", a line), test, forecast.                                          *)
C3_TraceCountAndOrder ==
    Shown =>
        LET d == displayed[1].data IN
        /\ Recognised
        /\ Len(d) = ExpectedTraces
        /\ d[1].name = "Training Data"
        /\ d[1].mode = "lines"
        /\ d[1].line # None
        /\ test_data # None => d[2].name = "Test Data"
        /\ forecast # None => d[Len(d)].name = "Point Forecast"
        /\ (test_data = None /\ forecast = None) => Len(d) = 1

C3_Witness ==
    /\ Shown
    /\ test_data # None
    /\ forecast # None
    /\ Len(displayed[1].data) = 3

(* C4: a test trace that has been built is styled by test_data_mode alone:  *)
(* "markers" gives a marker of size 6 in the test colour and no line,       *)
(* "lines" gives a line in the test colour and no marker; exactly one of    *)
(* the two stylings is set.                                                 *)
C4_TestTraceStyle ==
    \A i \in 1..Len(BuiltTraces) :
        LET t == BuiltTraces[i] IN
        t.name = "Test Data" =>
            /\ t.mode = test_data_mode
            /\ test_data_mode = "markers" =>
                   /\ t.marker = [color |-> WantedColor("test"), size |-> 6]
                   /\ t.line = None
            /\ test_data_mode = "lines" =>
                   /\ t.line = [color |-> WantedColor("test")]
                   /\ t.marker = None
            /\ (t.marker = None) # (t.line = None)

C4_Witness ==
    /\ pc = "done"
    /\ test_data_mode = "lines"
    /\ Len(BuiltTraces) >= 2
    /\ BuiltTraces[2].name = "Test Data"
    /\ BuiltTraces[2].marker = None

(* C5: the displayed chart has a "Point Forecast" trace exactly when        *)
(* forecast is provided; that trace is a dashed line under either mode, and *)
(* with all three series the chart has exactly three traces.                *)
C5_ForecastDashed ==
    Shown =>
        LET d == displayed[1].data IN
        /\ forecast # None <=> \E i \in 1..Len(d) : d[i].name = "Point Forecast"
        /\ \A i \in 1..Len(d) :
               d[i].name = "Point Forecast" =>
                   /\ d[i].mode = "lines"
                   /\ d[i].line # None
                   /\ "dash" \in DOMAIN d[i].line
                   /\ d[i].line.dash = "dash"
        /\ (test_data # None /\ forecast # None) => Len(d) = 3

C5_Witness ==
    /\ Shown
    /\ test_data_mode = "markers"
    /\ test_data # None
    /\ forecast # None
    /\ displayed[1].data[3].name = "Point Forecast"

(* C6: every trace that is built carries the colour of its own role: the    *)
(* defaults #0072B2, #000000, #FF0000 when color_dict is omitted, the       *)
(* supplied colour of that role when color_dict is supplied.                *)
C6_TraceColors ==
    \A i \in 1..Len(BuiltTraces) :
        TraceColor(BuiltTraces[i]) = WantedColor(RoleOf(BuiltTraces[i]))

C6_Witness ==
    /\ Shown
    /\ Supplied
    /\ Len(BuiltTraces) = 3
    /\ heap["caller"]["training"] # heap["caller"]["test"]
    /\ heap["caller"]["training"] # "#0072B2"

(* C7: the displayed chart's y-axis caption is the y_axis_label argument    *)
(* and its x-axis caption is "Date".                                        *)
C7_AxisCaptions ==
    Shown =>
        /\ displayed[1].layout.yaxis_title = y_axis_label
        /\ displayed[1].layout.xaxis_title = "Date"

C7_Witness ==
    /\ Shown
    /\ y_axis_label = "Sales"
    /\ forecast = None

\* the two outcomes of a call, and nothing rendered or returned before them
Outcome ==
    /\ Len(displayed) <= 1
    /\ pc = "raised" => (exc # "" /\ displayed = <<>> /\ ret = "")
    /\ pc = "done" =>
           /\ exc = ""
           /\ ret = "None"
           /\ Len(displayed) = 1
           /\ displayed[1] = fig
           /\ Len(displayed[1].data) = ExpectedTraces
           /\ "yaxis_title" \in DOMAIN displayed[1].layout
    /\ ~Terminated => (exc = "" /\ displayed = <<>> /\ ret = "")

(* C8: every call ends, either raised with nothing displayed or done with   *)
(* the chart displayed exactly once; what is displayed is the figure with   *)
(* all its traces and its layout, and the call returns None.                *)
C8_OneOutcome == []Outcome /\ <>Terminated

C8_Witness ==
    /\ pc = "done"
    /\ Len(displayed) = 1
    /\ Len(displayed[1].data) = 3
    /\ ret = "None"

\* color_dict after lines 53-58 have run
Resolved == pc \notin {"validate", "colors"} /\ exc # "ValueError"

(* C9: after the colours are resolved, color_dict is the default mapping    *)
(* exactly when the caller passed None; a supplied mapping, partial or      *)
(* empty, is used as it is, and the caller's dict is never modified.        *)
C9_AllOrNothing ==
    /\ [](Resolved =>
            IF Supplied
            THEN color_dict = "caller" /\ DOMAIN heap = {"caller"}
            ELSE /\ color_dict = "default"
                 /\ heap["default"] = DefaultColors)
    /\ [][Supplied => heap'["caller"] = heap["caller"]]_vars

C9_Witness ==
    /\ pc = "done"
    /\ Supplied
    /\ DOMAIN heap["caller"] = {"training"}
    /\ color_dict = "caller"

====
